---- MODULE Spec2Model ----
(***************************************************************************)
(* Chrono-DB: the bitemporal store (db_engine.go), the CRDT registry       *)
(* (crdt.go) and the replication coordinator (raft.go) as state machines.  *)
(* The three components share no state in the source (RaftNode.Apply never *)
(* touches db or crdtStore), so each has its own specification over the    *)
(* module's variables; the variables of the other components stay put.     *)
(***************************************************************************)
EXTENDS Integers, Sequences, FiniteSets, TLC

VARIABLES
    data,       \* DBEngine.data : map[string][]TemporalRecord
    disk,       \* contents of <dataDir>/chrono_db.json
    now,        \* the wall clock read by time.Now()
    dbLast,     \* the last DBEngine call: its arguments and what it returned
    gcounter,   \* per replica, CRDTStore.gcounter : map[string]GCounter
    ctrLast,    \* the last counter call: its arguments, the store before, the error
    stale,      \* per replica: the other replica incremented since this one merged it
    chan,       \* a counter state sent earlier and still in flight (delayed, repeatable)
    lww,        \* CRDTStore.lww : map[string]LWWRegister
    lwwSeen,    \* every (key, register) ever passed to SetLWW or MergeLWW
    lwwLast,    \* the last register call: its arguments and the map before
    raftState,  \* per node, RaftNode.state
    currentTerm, \* per node, RaftNode.currentTerm
    votedFor,   \* per node, RaftNode.votedFor
    peers,      \* per node, RaftNode.peers : map nodeID -> address
    log,        \* per node, RaftNode.log : []LogEntry
    commitIndex, \* per node, RaftNode.commitIndex
    lastApplied, \* per node, RaftNode.lastApplied
    mu,         \* per node, who holds RaftNode.mu for writing
    tickSeen,   \* per node, the state runConsensus read on this tick ("wait": none)
    pc,         \* per caller of Apply, where it stands in the function
    entry,      \* per caller of Apply, its local variable entry
    ret,        \* per caller of Apply, the call: role and indexes at entry, result
    dbMu,       \* DBEngine.mu: its writer ("none" or a handler) and its readers
    dbPc,       \* per HTTP handler, where it stands in Insert or QueryTemporal
    dbLocal,    \* per HTTP handler, the local variable record of Insert
    mainPc,     \* where main stands: serving, or in one of its deferred calls
    shutdownCh, \* per node, RaftNode.shutdownCh: "open" or "closed"
    consensus,  \* per node, the goroutine runConsensus: "running" or "returned"
    ticker      \* per node, the ticker's channel (capacity 1): "empty", or a tick
                \* sent before ("tick") or after ("late") shutdownCh was closed

storeVars == <<data, disk, now, dbLast>>
counterVars == <<gcounter, ctrLast, stale, chan>>
lwwVars == <<lww, lwwSeen, lwwLast>>

raftVars == <<raftState, currentTerm, votedFor, peers, log, commitIndex,
              lastApplied, mu, tickSeen, pc, entry, ret>>

\* the goroutines around the components: handlers, main, runConsensus
procVars == <<dbMu, dbPc, dbLocal, mainPc, shutdownCh, consensus, ticker>>

vars == <<storeVars, counterVars, lwwVars, raftVars, procVars>>

\* what each component's steps leave alone
notStore == <<counterVars, lwwVars, raftVars, procVars>>
notCounter == <<storeVars, lwwVars, raftVars, procVars>>
notLww == <<storeVars, counterVars, raftVars, procVars>>
notRaft == <<storeVars, counterVars, lwwVars, procVars>>

(***************************************************************************)
(* Bounds and input domains                                                *)
(***************************************************************************)
MaxRecords == 2          \* records inserted in one run, all keys together

Keys == {"k1", "k2"}
Values == {"a", "b"}
ValidTimes == 0 .. 2     \* valid-time instants a query may ask for
ClockTimes == 0 .. 1     \* readings of the clock, and as-of instants of queries
\* valid intervals offered to Insert: [0,2) and [1,2) overlap, <<1,1>> is
\* malformed (validStart = validEnd)
Ranges == {<<0, 2>>, <<1, 2>>, <<1, 1>>}

MaxCount == 2            \* counter components stay within -1 .. MaxCount
MaxCalls == 3            \* distinct (key, register) pairs written in one run

Replicas == {"r1", "r2"}
NodeIds == {"n1", "n2"}
Deltas == {-1, 0, 1}     \* deltas offered to IncrementCounter
Timestamps == 0 .. 1     \* register timestamps
CounterKey == "k1"       \* the counter the two-replica runs follow

MaxLog == 2              \* Apply is offered while the log is shorter than this
MaxTerm == 2             \* elections are offered while currentTerm is below this

Nodes == {"node1", "node2"}
ThisNode == "node1"      \* the node that Apply, and the one-node runs, are about
Addrs == {"localhost:9000", "localhost:9001"}
Callers == {"c1", "c2"}  \* goroutines calling Apply
Handlers == {"h1", "h2"} \* goroutines of the HTTP server calling the store
\* commands offered to Apply: an insert, a counter increment, a register set
Commands ==
    {[type |-> "insert", key |-> "k1", value |-> "a"],
     [type |-> "increment", key |-> "k1", value |-> "n1"],
     [type |-> "set_register", key |-> "k1", value |-> "a"]}

Nil == "nil"             \* Go's nil interface value / nil error
StorageError == "StorageError"
NoCall == [op |-> "none"]

(***************************************************************************)
(* db_engine.go                                                            *)
(***************************************************************************)

\* data[key] as Go reads it: the nil slice when the key is absent
Records(d, key) == IF key \in DOMAIN d THEN d[key] ELSE <<>>

TotalRecords(d) ==
    LET RECURSIVE Sum(_)
        Sum(S) == IF S = {} THEN 0
                  ELSE LET k == CHOOSE x \in S : TRUE
                       IN  Len(d[k]) + Sum(S \ {k})
    IN  Sum(DOMAIN d)

NewRecord(key, value, validStart, validEnd, txTime) ==
    [Key |-> key, Value |-> value,
     ValidTimeStart |-> validStart, ValidTimeEnd |-> validEnd,
     TransactionTime |-> txTime]

\* the key's slice is replaced by the new record instead of extended
AppendRecord_Overwrite(d, key, record) ==
    [k \in DOMAIN d \cup {key} |-> IF k = key THEN <<record>> ELSE d[k]]

\* db.data[key] = append(db.data[key], record)
AppendRecord(d, key, record) ==
    [k \in DOMAIN d \cup {key} |->
        IF k = key THEN Append(Records(d, key), record) ELSE d[k]]

\* After and Before mixed up
SkipByTransactionTime_Before(rec, asOfTime) == rec.TransactionTime < asOfTime

\* rec.TransactionTime.After(asOfTime): the record is skipped
SkipByTransactionTime(rec, asOfTime) == rec.TransactionTime > asOfTime

\* validTime.After(rec.ValidTimeStart) && validTime.Before(rec.ValidTimeEnd)
ValidAt(rec, validTime) ==
    validTime > rec.ValidTimeStart /\ validTime < rec.ValidTimeEnd

NotFound == [value |-> Nil, found |-> FALSE, idx |-> 0]

\* the loop  for i := len(records) - 1; i >= 0; i--  with i counted from 1;
\* idx is the position of the record the loop returned from (0: fell through)
RECURSIVE ScanRecords(_, _, _, _)
ScanRecords(records, i, asOfTime, validTime) ==
    IF i = 0 THEN NotFound
    ELSE LET rec == records[i] IN
         IF SkipByTransactionTime(rec, asOfTime)
            THEN ScanRecords(records, i - 1, asOfTime, validTime)
         ELSE IF ValidAt(rec, validTime)
            THEN [value |-> rec.Value, found |-> TRUE, idx |-> i]
         ELSE ScanRecords(records, i - 1, asOfTime, validTime)

QueryTemporalResult(d, key, asOfTime, validTime) ==
    IF key \notin DOMAIN d THEN NotFound
    ELSE ScanRecords(d[key], Len(d[key]), asOfTime, validTime)

StoreInit ==
    /\ data = << >>          \* make(map[string][]TemporalRecord), no data file yet
    /\ disk = << >>
    /\ now = 0
    /\ dbLast = NoCall

\* time.Now() moves on between calls
Tick ==
    /\ now + 1 \in ClockTimes
    /\ now' = now + 1
    /\ UNCHANGED <<data, disk, dbLast>>
    /\ UNCHANGED notStore

\* DBEngine.Insert: append under the write lock, then persistData; persisted
\* is whether os.Create and Encode succeeded (on failure the file is left as
\* it was and the error is returned, the in-memory append stays).
Insert(key, value, validStart, validEnd, persisted) ==
    /\ TotalRecords(data) < MaxRecords
    /\ LET record == NewRecord(key, value, validStart, validEnd, now) IN
       /\ data' = AppendRecord(data, key, record)
       /\ disk' = IF persisted THEN data' ELSE disk
       /\ dbLast' = [op |-> "Insert", key |-> key, record |-> record,
                     err |-> IF persisted THEN Nil ELSE StorageError]
    /\ UNCHANGED now
    /\ UNCHANGED notStore

\* DBEngine.QueryTemporal
QueryTemporal(key, asOfTime, validTime) ==
    /\ LET r == QueryTemporalResult(data, key, asOfTime, validTime) IN
       dbLast' = [op |-> "QueryTemporal", key |-> key, asOf |-> asOfTime,
                  validTime |-> validTime,
                  value |-> r.value, found |-> r.found, idx |-> r.idx]
    /\ UNCHANGED <<data, disk, now>>
    /\ UNCHANGED notStore

StoreNext ==
    \/ Tick
    \/ \E key \in Keys, value \in Values, rg \in Ranges, persisted \in BOOLEAN :
          Insert(key, value, rg[1], rg[2], persisted)
    \/ \E key \in Keys, asOfTime \in ClockTimes, validTime \in ValidTimes :
          QueryTemporal(key, asOfTime, validTime)

(***************************************************************************)
(* crdt.go: grow-only counters                                             *)
(***************************************************************************)

\* make(map[string]int64), and the nil map of a zero GCounter
EmptyCounts == << >>

\* m[nodeID] as Go reads it: 0 when the node has no entry
Count(counts, nodeID) == IF nodeID \in DOMAIN counts THEN counts[nodeID] ELSE 0

\* gc, exists := c.gcounter[key]; if !exists { gc = GCounter{make(...)} }
CounterOf(store, key) == IF key \in DOMAIN store THEN store[key] ELSE EmptyCounts

\* m[k] = v on a Go map
Put(m, k, v) == [x \in DOMAIN m \cup {k} |-> IF x = k THEN v ELSE m[x]]

RECURSIVE SumOver(_, _)
SumOver(counts, S) ==
    IF S = {} THEN 0
    ELSE LET n == CHOOSE x \in S : TRUE
         IN  counts[n] + SumOver(counts, S \ {n})

\* the comparison is dropped: every remote component overwrites the local one
MergeNodeCounts_Overwrite(local, other) ==
    [n \in DOMAIN local \cup DOMAIN other |->
        IF n \in DOMAIN other THEN other[n] ELSE local[n]]

\* for nodeID, count := range other.NodeCounts {
\*     if count > local.NodeCounts[nodeID] { local.NodeCounts[nodeID] = count } }
MergeNodeCounts(local, other) ==
    LET taken == {n \in DOMAIN other : other[n] > Count(local, n)}
    IN  [n \in DOMAIN local \cup taken |->
            IF n \in taken THEN other[n] ELSE local[n]]

\* the body of CRDTStore.IncrementCounter
IncrementCounterStore(store, key, nodeID, delta) ==
    LET gc == CounterOf(store, key)
    IN  Put(store, key, Put(gc, nodeID, Count(gc, nodeID) + delta))

\* the body of CRDTStore.MergeCounter
MergeCounterStore(store, key, other) ==
    Put(store, key, MergeNodeCounts(CounterOf(store, key), other))

\* the body of CRDTStore.GetCounter
GetCounterValue(store, key) ==
    IF key \notin DOMAIN store THEN 0
    ELSE SumOver(store[key], DOMAIN store[key])

Peer(r) == CHOOSE q \in Replicas : q # r

NoMsg == [from |-> "none"]

\* remote counter states handed to MergeCounter
RemoteCounts ==
    UNION {[S -> -1 .. MaxCount] : S \in SUBSET NodeIds}

InBounds(v) == v \in -1 .. MaxCount

CounterInit ==
    /\ gcounter = [r \in Replicas |-> << >>]   \* make(map[string]GCounter)
    /\ ctrLast = NoCall
    /\ stale = [r \in Replicas |-> FALSE]
    /\ chan = NoMsg

\* CRDTStore.IncrementCounter on replica r1; the function returns nothing,
\* so the caller sees no error whatever delta is
IncrementCounter(key, nodeID, delta) ==
    /\ InBounds(Count(CounterOf(gcounter["r1"], key), nodeID) + delta)
    /\ gcounter' = [gcounter EXCEPT
                      !["r1"] = IncrementCounterStore(@, key, nodeID, delta)]
    /\ ctrLast' = [op |-> "IncrementCounter", key |-> key, nodeID |-> nodeID,
                   delta |-> delta, before |-> gcounter["r1"], err |-> Nil]
    /\ UNCHANGED <<stale, chan>>
    /\ UNCHANGED notCounter

\* CRDTStore.MergeCounter on replica r1
MergeCounter(key, other) ==
    /\ gcounter' = [gcounter EXCEPT !["r1"] = MergeCounterStore(@, key, other)]
    /\ ctrLast' = [op |-> "MergeCounter", key |-> key, other |-> other,
                   before |-> gcounter["r1"], err |-> Nil]
    /\ UNCHANGED <<stale, chan>>
    /\ UNCHANGED notCounter

\* CRDTStore.GetCounter on replica r1
GetCounter(key) ==
    /\ ctrLast' = [op |-> "GetCounter", key |-> key,
                   value |-> GetCounterValue(gcounter["r1"], key),
                   before |-> gcounter["r1"], err |-> Nil]
    /\ UNCHANGED <<gcounter, stale, chan>>
    /\ UNCHANGED notCounter

CounterNext ==
    \/ \E key \in Keys, nodeID \in NodeIds, delta \in Deltas :
          IncrementCounter(key, nodeID, delta)
    \/ \E key \in Keys, other \in RemoteCounts : MergeCounter(key, other)
    \/ \E key \in Keys : GetCounter(key)

(***************************************************************************)
(* Two replicas of one counter, each a CRDTStore, exchanging their states. *)
(* Only deltas >= 0 are offered here.                                      *)
(***************************************************************************)

\* replica r calls IncrementCounter; its peer has not seen that yet
ReplicaIncrement(r, nodeID, delta) ==
    /\ InBounds(Count(CounterOf(gcounter[r], CounterKey), nodeID) + delta)
    /\ gcounter' = [gcounter EXCEPT
                      ![r] = IncrementCounterStore(@, CounterKey, nodeID, delta)]
    /\ stale' = [stale EXCEPT ![Peer(r)] = TRUE]
    /\ UNCHANGED <<ctrLast, chan>>
    /\ UNCHANGED notCounter

\* replica r calls MergeCounter with its peer's present state
ReplicaMerge(r) ==
    /\ gcounter' = [gcounter EXCEPT
                      ![r] = MergeCounterStore(@, CounterKey,
                                 CounterOf(gcounter[Peer(r)], CounterKey))]
    /\ stale' = [stale EXCEPT ![r] = FALSE]
    /\ UNCHANGED <<ctrLast, chan>>
    /\ UNCHANGED notCounter

\* replica r sends its present state; the message replaces the one in flight
SendState(r) ==
    /\ chan' = [from |-> r, counts |-> CounterOf(gcounter[r], CounterKey)]
    /\ UNCHANGED <<gcounter, ctrLast, stale>>
    /\ UNCHANGED notCounter

\* the message in flight reaches the sender's peer, late and any number of
\* times: the peer calls MergeCounter with the state that was sent
DeliverState ==
    /\ chan # NoMsg
    /\ gcounter' = [gcounter EXCEPT
                      ![Peer(chan.from)] =
                          MergeCounterStore(@, CounterKey, chan.counts)]
    /\ UNCHANGED <<ctrLast, stale, chan>>
    /\ UNCHANGED notCounter

GrowNext ==
    \/ \E r \in Replicas, nodeID \in NodeIds, delta \in {d \in Deltas : d >= 0} :
          ReplicaIncrement(r, nodeID, delta)
    \/ \E r \in Replicas : ReplicaMerge(r)
    \/ \E r \in Replicas : SendState(r)
    \/ DeliverState

(***************************************************************************)
(* crdt.go: last-writer-wins registers                                     *)
(***************************************************************************)

\* Go compares the node ids as strings, byte by byte: "n1" < "n2"
NodeRank == [n \in NodeIds |-> IF n = "n1" THEN 1 ELSE 2]
StringGreater(a, b) == NodeRank[a] > NodeRank[b]

Register(value, timestamp, nodeID) ==
    [Value |-> value, Timestamp |-> timestamp, NodeID |-> nodeID]

Registers ==
    {Register(v, t, n) : v \in Values, t \in Timestamps, n \in NodeIds}

\* the comparison with the stored register is left out
SetLWWStore_Always(store, key, value, timestamp, nodeID) ==
    Put(store, key, Register(value, timestamp, nodeID))

\* the body of CRDTStore.SetLWW
SetLWWStore(store, key, value, timestamp, nodeID) ==
    IF \/ key \notin DOMAIN store
       \/ timestamp > store[key].Timestamp
       \/ (timestamp = store[key].Timestamp
             /\ StringGreater(nodeID, store[key].NodeID))
    THEN Put(store, key, Register(value, timestamp, nodeID))
    ELSE store

\* a tie on the timestamp is won by the incoming register whatever its node id
MergeLWWStore_TieWins(store, key, other) ==
    IF \/ key \notin DOMAIN store
       \/ other.Timestamp >= store[key].Timestamp
    THEN Put(store, key, other)
    ELSE store

\* the body of CRDTStore.MergeLWW
MergeLWWStore(store, key, other) ==
    IF \/ key \notin DOMAIN store
       \/ other.Timestamp > store[key].Timestamp
       \/ (other.Timestamp = store[key].Timestamp
             /\ StringGreater(other.NodeID, store[key].NodeID))
    THEN Put(store, key, other)
    ELSE store

\* the body of CRDTStore.GetLWW
GetLWWResult(store, key) ==
    IF key \notin DOMAIN store THEN [value |-> Nil, found |-> FALSE]
    ELSE [value |-> store[key].Value, found |-> TRUE]

Written(key, reg) == [key |-> key, reg |-> reg]

LwwInit ==
    /\ lww = << >>               \* make(map[string]LWWRegister)
    /\ lwwSeen = {}
    /\ lwwLast = NoCall

\* CRDTStore.SetLWW
SetLWW(key, value, timestamp, nodeID) ==
    LET reg == Register(value, timestamp, nodeID) IN
    /\ Cardinality(lwwSeen \cup {Written(key, reg)}) <= MaxCalls
    /\ lww' = SetLWWStore(lww, key, value, timestamp, nodeID)
    /\ lwwSeen' = lwwSeen \cup {Written(key, reg)}
    /\ lwwLast' = [op |-> "SetLWW", key |-> key, reg |-> reg, before |-> lww]
    /\ UNCHANGED notLww

\* CRDTStore.MergeLWW
MergeLWW(key, other) ==
    /\ Cardinality(lwwSeen \cup {Written(key, other)}) <= MaxCalls
    /\ lww' = MergeLWWStore(lww, key, other)
    /\ lwwSeen' = lwwSeen \cup {Written(key, other)}
    /\ lwwLast' = [op |-> "MergeLWW", key |-> key, reg |-> other, before |-> lww]
    /\ UNCHANGED notLww

\* CRDTStore.GetLWW
GetLWW(key) ==
    /\ lwwLast' = [op |-> "GetLWW", key |-> key,
                   result |-> GetLWWResult(lww, key), before |-> lww]
    /\ UNCHANGED <<lww, lwwSeen>>
    /\ UNCHANGED notLww

LwwNext ==
    \/ \E key \in Keys, reg \in Registers :
          SetLWW(key, reg.Value, reg.Timestamp, reg.NodeID)
    \/ \E key \in Keys, other \in Registers : MergeLWW(key, other)
    \/ \E key \in Keys : GetLWW(key)

(***************************************************************************)
(* raft.go                                                                 *)
(***************************************************************************)

Free == "free"

\* the process has not exited
Alive == mainPc # "exited"
NoEntry == [Term |-> 0, Index |-> 0, Command |-> Nil]

\* the mutex is not taken
CanLock_NoMutex(n) == TRUE

\* r.mu.Lock() / r.mu.RLock() can proceed: no writer holds r.mu.  (Readers
\* hold it only within one step here.)
CanLock(n) == mu[n] = Free

\* Index: len(r.log), the + 1 forgotten
NewEntry_IndexFromZero(term, logLen, command) ==
    [Term |-> term, Index |-> logLen, Command |-> command]

\* entry := LogEntry{Term: r.currentTerm, Index: int64(len(r.log) + 1), ...}
NewEntry(term, logLen, command) ==
    [Term |-> term, Index |-> logLen + 1, Command |-> command]

\* the peer count is not looked at
StartElectionResult_AlwaysLeader(term, state, peerMap, nodeID) ==
    [currentTerm |-> term + 1, votedFor |-> nodeID, state |-> "Leader"]

\* r.currentTerm-- in place of r.currentTerm++
StartElectionResult_TermDown(term, state, peerMap, nodeID) ==
    [currentTerm |-> term - 1,
     votedFor    |-> nodeID,
     state       |-> IF Cardinality(DOMAIN peerMap) = 0 THEN "Leader" ELSE state]

\* the body of startElection: r.currentTerm++; r.votedFor = r.nodeID;
\* if len(r.peers) == 0 { r.state = Leader }
StartElectionResult(term, state, peerMap, nodeID) ==
    [currentTerm |-> term + 1,
     votedFor    |-> nodeID,
     state       |-> IF Cardinality(DOMAIN peerMap) = 0 THEN "Leader" ELSE state]

\* RaftNode.GetState
GetStateResult(n) ==
    [state |-> IF raftState[n] = "Leader" THEN "leader"
               ELSE IF raftState[n] = "Candidate" THEN "candidate"
               ELSE "follower",
     term  |-> currentTerm[n]]

\* what Apply may change, kept with a call to compare before and after
Indexes(n) ==
    [log |-> log[n], commitIndex |-> commitIndex[n],
     lastApplied |-> lastApplied[n]]

\* NewRaftNode, on every node
RaftInit ==
    /\ raftState = [n \in Nodes |-> "Follower"]
    /\ currentTerm = [n \in Nodes |-> 0]
    /\ votedFor = [n \in Nodes |-> ""]
    /\ peers = [n \in Nodes |-> << >>]
    /\ log = [n \in Nodes |-> << >>]
    /\ commitIndex = [n \in Nodes |-> 0]
    /\ lastApplied = [n \in Nodes |-> 0]
    /\ mu = [n \in Nodes |-> Free]
    /\ tickSeen = [n \in Nodes |-> "wait"]
    /\ pc = [c \in Callers |-> "idle"]
    /\ entry = [c \in Callers |-> NoEntry]
    /\ ret = [c \in Callers |-> NoCall]

\* RaftNode.Apply, line 136: r.mu.Lock()
ApplyLock(c, command) ==
    /\ Alive
    /\ pc[c] = "idle"
    /\ Len(log[ThisNode]) < MaxLog
    /\ CanLock(ThisNode)
    /\ mu' = [mu EXCEPT ![ThisNode] = c]
    /\ pc' = [pc EXCEPT ![c] = "locked"]
    /\ entry' = [entry EXCEPT ![c] = [NoEntry EXCEPT !.Command = command]]
    /\ ret' = [ret EXCEPT ![c] =
                 [op |-> "Apply", role |-> raftState[ThisNode],
                  term |-> currentTerm[ThisNode],
                  before |-> Indexes(ThisNode), err |-> "running",
                  index |-> 0, after |-> Indexes(ThisNode)]]
    /\ UNCHANGED <<raftState, currentTerm, votedFor, peers, log, commitIndex,
                   lastApplied, tickSeen>>
    /\ UNCHANGED notRaft

\* lines 141-145: the entry is built from currentTerm and len(r.log)
ApplyEntry(c) ==
    /\ Alive
    /\ pc[c] = "locked"
    /\ entry' = [entry EXCEPT ![c] =
                   NewEntry(currentTerm[ThisNode], Len(log[ThisNode]),
                            entry[c].Command)]
    /\ pc' = [pc EXCEPT ![c] = "built"]
    /\ UNCHANGED <<raftState, currentTerm, votedFor, peers, log, commitIndex,
                   lastApplied, mu, tickSeen, ret>>
    /\ UNCHANGED notRaft

\* line 147: r.log = append(r.log, entry)
ApplyAppend(c) ==
    /\ Alive
    /\ pc[c] = "built"
    /\ log' = [log EXCEPT ![ThisNode] = Append(@, entry[c])]
    /\ pc' = [pc EXCEPT ![c] = "appended"]
    /\ UNCHANGED <<raftState, currentTerm, votedFor, peers, commitIndex,
                   lastApplied, mu, tickSeen, entry, ret>>
    /\ UNCHANGED notRaft

\* line 148: r.commitIndex = entry.Index
ApplyCommit(c) ==
    /\ Alive
    /\ pc[c] = "appended"
    /\ commitIndex' = [commitIndex EXCEPT ![ThisNode] = entry[c].Index]
    /\ pc' = [pc EXCEPT ![c] = "committed"]
    /\ UNCHANGED <<raftState, currentTerm, votedFor, peers, log, lastApplied,
                   mu, tickSeen, entry, ret>>
    /\ UNCHANGED notRaft

\* lines 149-152: r.lastApplied = entry.Index; return nil (and the deferred
\* Unlock)
ApplyReturn(c) ==
    /\ Alive
    /\ pc[c] = "committed"
    /\ lastApplied' = [lastApplied EXCEPT ![ThisNode] = entry[c].Index]
    /\ mu' = [mu EXCEPT ![ThisNode] = IF @ = c THEN Free ELSE @]
    /\ pc' = [pc EXCEPT ![c] = "idle"]
    /\ ret' = [ret EXCEPT ![c] =
                 [@ EXCEPT !.err = Nil, !.index = entry[c].Index,
                           !.after = [log |-> log[ThisNode],
                                      commitIndex |-> commitIndex[ThisNode],
                                      lastApplied |-> entry[c].Index]]]
    /\ UNCHANGED <<raftState, currentTerm, votedFor, peers, log, commitIndex,
                   tickSeen, entry>>
    /\ UNCHANGED notRaft

\* RaftNode.Join: r.peers[nodeID] = addr, on node n alone
Join(n, nodeID, addr) ==
    /\ Alive
    /\ CanLock(n)
    /\ peers' = [peers EXCEPT ![n] = Put(@, nodeID, addr)]
    /\ UNCHANGED <<raftState, currentTerm, votedFor, log, commitIndex,
                   lastApplied, mu, tickSeen, pc, entry, ret>>
    /\ UNCHANGED notRaft

\* time.NewTicker(500 * time.Millisecond), line 82: the ticker sends a tick
\* on its channel, which holds one; a tick that finds it full is dropped
TickerFire(n) ==
    /\ Alive
    /\ consensus[n] = "running"
    /\ ticker[n] = "empty"
    /\ ticker' = [ticker EXCEPT ![n] =
                    IF shutdownCh[n] = "closed" THEN "late" ELSE "tick"]
    /\ UNCHANGED <<dbMu, dbPc, dbLocal, mainPc, shutdownCh, consensus>>
    /\ UNCHANGED <<storeVars, counterVars, lwwVars, raftVars>>

\* runConsensus, lines 86-92: the select takes the tick (with shutdownCh
\* closed as well, Go chooses among the ready cases at random) and the state
\* is read
TickRead(n) ==
    /\ Alive
    /\ consensus[n] = "running"
    /\ tickSeen[n] = "wait"
    /\ ticker[n] # "empty"
    /\ CanLock(n)
    /\ ticker' = [ticker EXCEPT ![n] = "empty"]
    /\ tickSeen' = [tickSeen EXCEPT ![n] = raftState[n]]
    /\ UNCHANGED <<raftState, currentTerm, votedFor, peers, log, commitIndex,
                   lastApplied, mu, pc, entry, ret>>
    /\ UNCHANGED <<dbMu, dbPc, dbLocal, mainPc, shutdownCh, consensus>>
    /\ UNCHANGED <<storeVars, counterVars, lwwVars>>

\* runConsensus, lines 86-88: the select takes the closed shutdownCh and the
\* goroutine returns
ConsensusReturn(n) ==
    /\ Alive
    /\ consensus[n] = "running"
    /\ tickSeen[n] = "wait"
    /\ shutdownCh[n] = "closed"
    /\ consensus' = [consensus EXCEPT ![n] = "returned"]
    /\ UNCHANGED <<dbMu, dbPc, dbLocal, mainPc, shutdownCh, ticker>>
    /\ UNCHANGED <<storeVars, counterVars, lwwVars, raftVars>>

\* runConsensus, lines 94-103: the switch on the state that was read.  A
\* Follower does nothing, a Candidate calls startElection, a Leader calls
\* sendHeartbeats, which only writes to the process log.
TickAct(n) ==
    /\ Alive
    /\ tickSeen[n] # "wait"
    /\ tickSeen' = [tickSeen EXCEPT ![n] = "wait"]
    /\ IF tickSeen[n] = "Candidate"
       THEN /\ CanLock(n)
            /\ currentTerm[n] < MaxTerm
            /\ LET e == StartElectionResult(currentTerm[n], raftState[n],
                                            peers[n], n)
               IN  /\ currentTerm' = [currentTerm EXCEPT ![n] = e.currentTerm]
                   /\ votedFor' = [votedFor EXCEPT ![n] = e.votedFor]
                   /\ raftState' = [raftState EXCEPT ![n] = e.state]
       ELSE /\ tickSeen[n] = "Leader" => CanLock(n)
            /\ UNCHANGED <<raftState, currentTerm, votedFor>>
    /\ UNCHANGED <<peers, log, commitIndex, lastApplied, mu, pc, entry, ret>>
    /\ UNCHANGED notRaft

\* Not in raft.go, whose Follower case is empty: the election timeout of the
\* design (4.3), "if none [no heartbeat] arrive before an election timeout,
\* transition to Candidate".  It is part of SpecNode and SpecCluster only.
ElectionTimeout(n) ==
    /\ Alive
    /\ raftState[n] = "Follower"
    /\ CanLock(n)
    /\ raftState' = [raftState EXCEPT ![n] = "Candidate"]
    /\ UNCHANGED <<currentTerm, votedFor, peers, log, commitIndex, lastApplied,
                   mu, tickSeen, pc, entry, ret>>
    /\ UNCHANGED notRaft

\* one node, as raft.go has it
RaftNext ==
    \/ \E c \in Callers, command \in Commands : ApplyLock(c, command)
    \/ \E c \in Callers : ApplyEntry(c)
    \/ \E c \in Callers : ApplyAppend(c)
    \/ \E c \in Callers : ApplyCommit(c)
    \/ \E c \in Callers : ApplyReturn(c)
    \/ \E nodeID \in Nodes, addr \in Addrs : Join(ThisNode, nodeID, addr)
    \/ TickerFire(ThisNode)
    \/ TickRead(ThisNode)
    \/ TickAct(ThisNode)

\* one node, with the election timeout of the design
NodeNext ==
    \/ \E c \in Callers, command \in Commands : ApplyLock(c, command)
    \/ \E c \in Callers : ApplyEntry(c)
    \/ \E c \in Callers : ApplyAppend(c)
    \/ \E c \in Callers : ApplyCommit(c)
    \/ \E c \in Callers : ApplyReturn(c)
    \/ \E nodeID \in Nodes, addr \in Addrs : Join(ThisNode, nodeID, addr)
    \/ TickerFire(ThisNode)
    \/ TickRead(ThisNode)
    \/ TickAct(ThisNode)
    \/ ElectionTimeout(ThisNode)

\* several nodes, each a process of its own, electing
ClusterNext ==
    \/ \E n \in Nodes, nodeID \in Nodes, addr \in Addrs : Join(n, nodeID, addr)
    \/ \E n \in Nodes : TickerFire(n)
    \/ \E n \in Nodes : TickRead(n)
    \/ \E n \in Nodes : TickAct(n)
    \/ \E n \in Nodes : ElectionTimeout(n)

(***************************************************************************)
(* The store under concurrent handlers, and the end of main                *)
(* (db_engine.go, unnamed/part_000)                                        *)
(***************************************************************************)

\* db.mu.Lock() can proceed
CanWriteLock == dbMu.writer = "none" /\ dbMu.readers = {}

\* db.mu.RLock() can proceed
CanReadLock == dbMu.writer = "none"

\* NewDBEngine; main before its wait for the signal; NewRaftNode's
\* shutdownCh and go node.runConsensus()
ProcInit ==
    /\ dbMu = [writer |-> "none", readers |-> {}]
    /\ dbPc = [h \in Handlers |-> "idle"]
    /\ dbLocal = [h \in Handlers |-> Nil]
    /\ mainPc = "serving"
    /\ shutdownCh = [n \in Nodes |-> "open"]
    /\ consensus = [n \in Nodes |-> "running"]
    /\ ticker = [n \in Nodes |-> "empty"]

\* Insert, lines 50-59: db.mu.Lock(), and the record is built
InsertLock(h, key, value, validStart, validEnd) ==
    /\ Alive
    /\ dbPc[h] = "idle"
    /\ TotalRecords(data) + Cardinality({g \in Handlers : dbPc[g] = "locked"})
          < MaxRecords
    /\ CanWriteLock
    /\ dbMu' = [dbMu EXCEPT !.writer = h]
    /\ dbLocal' = [dbLocal EXCEPT ![h] =
                     NewRecord(key, value, validStart, validEnd, now)]
    /\ dbPc' = [dbPc EXCEPT ![h] = "locked"]
    /\ UNCHANGED <<storeVars, mainPc, shutdownCh, consensus, ticker>>
    /\ UNCHANGED <<counterVars, lwwVars, raftVars>>

\* Insert, line 61: db.data[key] = append(db.data[key], record)
InsertAppend(h) ==
    /\ Alive
    /\ dbPc[h] = "locked"
    /\ data' = AppendRecord(data, dbLocal[h].Key, dbLocal[h])
    /\ dbPc' = [dbPc EXCEPT ![h] = "appended"]
    /\ UNCHANGED <<disk, now, dbLast, dbMu, dbLocal, mainPc, shutdownCh,
                   consensus, ticker>>
    /\ UNCHANGED <<counterVars, lwwVars, raftVars>>

\* Insert, line 62, persistData lines 114-118: os.Create truncates the file,
\* or fails, and then Insert returns the error and unlocks
InsertCreate(h, created) ==
    /\ Alive
    /\ dbPc[h] = "appended"
    /\ IF created
       THEN /\ disk' = << >>
            /\ dbPc' = [dbPc EXCEPT ![h] = "created"]
            /\ UNCHANGED dbMu
       ELSE /\ dbPc' = [dbPc EXCEPT ![h] = "idle"]
            /\ dbMu' = [dbMu EXCEPT !.writer = "none"]
            /\ UNCHANGED disk
    /\ UNCHANGED <<data, now, dbLast, dbLocal, mainPc, shutdownCh, consensus, ticker>>
    /\ UNCHANGED <<counterVars, lwwVars, raftVars>>

\* persistData lines 121-123: the map is encoded into the file; Insert
\* returns and the deferred Unlock runs
InsertEncode(h) ==
    /\ Alive
    /\ dbPc[h] = "created"
    /\ disk' = data
    /\ dbPc' = [dbPc EXCEPT ![h] = "idle"]
    /\ dbMu' = [dbMu EXCEPT !.writer = "none"]
    /\ UNCHANGED <<data, now, dbLast, dbLocal, mainPc, shutdownCh, consensus, ticker>>
    /\ UNCHANGED <<counterVars, lwwVars, raftVars>>

\* QueryTemporal, line 67: db.mu.RLock()
QueryLock(h) ==
    /\ Alive
    /\ dbPc[h] = "idle"
    /\ CanReadLock
    /\ dbMu' = [dbMu EXCEPT !.readers = @ \cup {h}]
    /\ dbPc' = [dbPc EXCEPT ![h] = "reading"]
    /\ UNCHANGED <<storeVars, dbLocal, mainPc, shutdownCh, consensus, ticker>>
    /\ UNCHANGED <<counterVars, lwwVars, raftVars>>

\* QueryTemporal returns and the deferred RUnlock runs
QueryUnlock(h) ==
    /\ Alive
    /\ dbPc[h] = "reading"
    /\ dbMu' = [dbMu EXCEPT !.readers = @ \ {h}]
    /\ dbPc' = [dbPc EXCEPT ![h] = "idle"]
    /\ UNCHANGED <<storeVars, dbLocal, mainPc, shutdownCh, consensus, ticker>>
    /\ UNCHANGED <<counterVars, lwwVars, raftVars>>

\* runConsensus is blocked in its select with no tick to take
Parked(n) ==
    consensus[n] = "running" /\ tickSeen[n] = "wait" /\ ticker[n] = "empty"

\* main, after the signal: the deferred raftNode.Shutdown() runs first and
\* closes shutdownCh (raft.go:172-176); it waits for nothing.  A goroutine
\* blocked in the select is woken by the close and can only return.
Shutdown ==
    /\ mainPc = "serving"
    /\ mainPc' = "stopped"
    /\ shutdownCh' = [shutdownCh EXCEPT ![ThisNode] = "closed"]
    /\ consensus' = [consensus EXCEPT ![ThisNode] =
                       IF Parked(ThisNode) THEN "returned" ELSE @]
    /\ UNCHANGED <<dbMu, dbPc, dbLocal, ticker>>
    /\ UNCHANGED <<storeVars, counterVars, lwwVars, raftVars>>

\* main: the deferred db.Close() runs next; Close calls persistData without
\* taking db.mu, and os.Create truncates the file
CloseCreate ==
    /\ mainPc = "stopped"
    /\ mainPc' = "closing"
    /\ disk' = << >>
    /\ UNCHANGED <<data, now, dbLast, dbMu, dbPc, dbLocal, shutdownCh,
                   consensus, ticker>>
    /\ UNCHANGED <<counterVars, lwwVars, raftVars>>

\* Close: the map is encoded as it is found, main returns and the process
\* exits
CloseEncode ==
    /\ mainPc = "closing"
    /\ mainPc' = "exited"
    /\ disk' = data
    /\ UNCHANGED <<data, now, dbLast, dbMu, dbPc, dbLocal, shutdownCh,
                   consensus, ticker>>
    /\ UNCHANGED <<counterVars, lwwVars, raftVars>>

\* Close: the encoder ranges over db.data while a handler is about to write
\* it; the Go runtime may stop the process on the concurrent map access, and
\* the file stays as os.Create left it
CloseCrash ==
    /\ mainPc = "closing"
    /\ \E h \in Handlers : dbPc[h] = "locked"
    /\ mainPc' = "exited"
    /\ UNCHANGED <<storeVars, dbMu, dbPc, dbLocal, shutdownCh, consensus, ticker>>
    /\ UNCHANGED <<counterVars, lwwVars, raftVars>>

\* one coordinator, as raft.go has it, while main ends
StopNext ==
    \/ \E c \in Callers, command \in Commands : ApplyLock(c, command)
    \/ \E c \in Callers : ApplyEntry(c)
    \/ \E c \in Callers : ApplyAppend(c)
    \/ \E c \in Callers : ApplyCommit(c)
    \/ \E c \in Callers : ApplyReturn(c)
    \/ TickerFire(ThisNode)
    \/ TickRead(ThisNode)
    \/ TickAct(ThisNode)
    \/ ConsensusReturn(ThisNode)
    \/ Shutdown
    \/ CloseCreate
    \/ CloseEncode

\* handlers of the HTTP server, which main never stops, and main's end
StoreLockNext ==
    \/ \E h \in Handlers, key \in Keys, value \in Values, range \in Ranges :
          InsertLock(h, key, value, range[1], range[2])
    \/ \E h \in Handlers : InsertAppend(h)
    \/ \E h \in Handlers, created \in BOOLEAN : InsertCreate(h, created)
    \/ \E h \in Handlers : InsertEncode(h)
    \/ \E h \in Handlers : QueryLock(h)
    \/ \E h \in Handlers : QueryUnlock(h)
    \/ Shutdown
    \/ CloseCreate
    \/ CloseEncode
    \/ CloseCrash

(***************************************************************************)
(* Specifications                                                          *)
(***************************************************************************)

Init == StoreInit /\ CounterInit /\ LwwInit /\ RaftInit /\ ProcInit

\* the temporal store
SpecStore == Init /\ [][StoreNext]_vars

\* one CRDT registry, counters
SpecCounter == Init /\ [][CounterNext]_vars

\* two registries exchanging counter states
SpecGrow == Init /\ [][GrowNext]_vars

\* one CRDT registry, registers
SpecLww == Init /\ [][LwwNext]_vars

\* the store with two handlers at work while main ends
SpecStoreLock == Init /\ [][StoreLockNext]_vars

\* one coordinator with its tick task while main ends
SpecStop == Init /\ [][StopNext]_vars

\* one coordinator, as raft.go has it
SpecRaft == Init /\ [][RaftNext]_vars

\* a call of Apply that holds r.mu runs on to its return
ApplyRuns ==
    \E c \in Callers :
        ApplyEntry(c) \/ ApplyAppend(c) \/ ApplyCommit(c) \/ ApplyReturn(c)

\* the same, with the ticker firing for ever: runConsensus blocks on nothing
\* but the ticker and r.mu, which every holder releases
SpecRaftFair ==
    Init /\ [][RaftNext]_vars
         /\ WF_vars(TickerFire(ThisNode))
         /\ WF_vars(TickRead(ThisNode)) /\ WF_vars(TickAct(ThisNode))
         /\ WF_vars(ApplyRuns)

\* one coordinator whose election timeout fires as the design describes
SpecNode == Init /\ [][NodeNext]_vars

\* several coordinators whose election timeouts fire as the design describes
SpecCluster == Init /\ [][ClusterNext]_vars

\* the same, where every node's ticker goes on firing and every Follower's
\* timeout eventually fires
SpecClusterFair ==
    Init /\ [][ClusterNext]_vars
         /\ \A n \in Nodes : /\ WF_vars(TickerFire(n))
                             /\ WF_vars(TickRead(n))
                             /\ WF_vars(TickAct(n))
                             /\ WF_vars(ElectionTimeout(n))

(***************************************************************************)
(* Claims about the temporal store, checked under SpecStore                *)
(***************************************************************************)

IsPrefix(s, t) == Len(s) <= Len(t) /\ SubSeq(t, 1, Len(s)) = s

SetMax(S) == CHOOSE x \in S : \A y \in S : y <= x

\* the positions of records that satisfy the predicate as the specification
\* words it: recordedAt <= asOf and validFrom <= validTime < validTo
ClaimedMatches(records, asOfTime, validTime) ==
    {i \in 1 .. Len(records) :
        /\ records[i].TransactionTime <= asOfTime
        /\ records[i].ValidTimeStart <= validTime
        /\ validTime < records[i].ValidTimeEnd}

QueriedRecords == Records(data, dbLast.key)

\* C1: a query returns (value, found = TRUE) of the most recently inserted
\* record with recordedAt <= asOf and validFrom <= validTime < validTo, and
\* found = FALSE when no record of the key satisfies both (or the key is
\* unknown).
C1_QueryHalfOpen ==
    dbLast.op = "QueryTemporal" =>
        LET M == ClaimedMatches(QueriedRecords, dbLast.asOf, dbLast.validTime) IN
        IF M = {} THEN ~dbLast.found
        ELSE dbLast.found /\ dbLast.value = QueriedRecords[SetMax(M)].Value

\* C2: no query is answered from a record whose recordedAt is later than
\* the query's asOf.
C2_NeverFromLaterRecord ==
    (dbLast.op = "QueryTemporal" /\ dbLast.found) =>
        /\ dbLast.idx \in 1 .. Len(QueriedRecords)
        /\ QueriedRecords[dbLast.idx].TransactionTime <= dbLast.asOf
        /\ QueriedRecords[dbLast.idx].Value = dbLast.value

\* a query was answered from R1 although a later record R2 (recorded after
\* asOf, another value) has validTime inside its valid interval
C2_Witness ==
    /\ dbLast.op = "QueryTemporal" /\ dbLast.found
    /\ \E j \in 1 .. Len(QueriedRecords) :
          /\ j > dbLast.idx
          /\ QueriedRecords[j].TransactionTime > dbLast.asOf
          /\ QueriedRecords[j].TransactionTime >
                QueriedRecords[dbLast.idx].TransactionTime
          /\ QueriedRecords[j].ValidTimeStart < dbLast.validTime
          /\ dbLast.validTime < QueriedRecords[j].ValidTimeEnd
          /\ QueriedRecords[j].Value # dbLast.value

\* C3: whenever two or more records of the key satisfy the recorded-time
\* and valid-time predicate, the query returns the value of the one inserted
\* last.
C3_TieBreakLatest ==
    dbLast.op = "QueryTemporal" =>
        LET M == ClaimedMatches(QueriedRecords, dbLast.asOf, dbLast.validTime) IN
        Cardinality(M) >= 2 =>
            dbLast.found /\ dbLast.value = QueriedRecords[SetMax(M)].Value

InsertStep == dbLast'.op = "Insert" /\ (dbLast' # dbLast \/ data' # data)

\* C4: every step keeps each key's history as a prefix of the new one; an
\* insert appends exactly its record at the end of its key's history and
\* leaves all other keys alone; only an insert changes the histories.
C4_AppendOnly ==
    [][ /\ DOMAIN data \subseteq DOMAIN data'
        /\ \A k \in DOMAIN data : IsPrefix(data[k], data'[k])
        /\ data' # data => InsertStep
        /\ InsertStep =>
              /\ dbLast'.record.Key = dbLast'.key
              /\ dbLast'.record.TransactionTime = now
              /\ Records(data', dbLast'.key) =
                    Append(Records(data, dbLast'.key), dbLast'.record)
              /\ \A k \in Keys \ {dbLast'.key} :
                    /\ (k \in DOMAIN data') = (k \in DOMAIN data)
                    /\ Records(data', k) = Records(data, k)
      ]_vars

\* an insert has extended a history that already held a different record
C4_Witness ==
    /\ dbLast.op = "Insert"
    /\ Len(Records(data, dbLast.key)) = 2
    /\ data[dbLast.key][2] = dbLast.record
    /\ data[dbLast.key][1] # dbLast.record

\* C5: an insert with validFrom >= validTo is rejected with a validation
\* error and changes nothing, so every stored record has validFrom < validTo.
C5_MalformedRangeRejected ==
    /\ \A k \in DOMAIN data : \A i \in 1 .. Len(data[k]) :
          data[k][i].ValidTimeStart < data[k][i].ValidTimeEnd
    /\ (dbLast.op = "Insert" /\
            dbLast.record.ValidTimeStart >= dbLast.record.ValidTimeEnd) =>
          dbLast.err = "ValidationError"

(***************************************************************************)
(* Claims about the counters                                               *)
(***************************************************************************)

Larger(a, b) == IF a >= b THEN a ELSE b

CounterEq(x, y) == \A n \in NodeIds : Count(x, n) = Count(y, n)

RECURSIVE SumOfMaxima(_, _, _)
SumOfMaxima(x, y, S) ==
    IF S = {} THEN 0
    ELSE LET n == CHOOSE m \in S : TRUE
         IN  Larger(Count(x, n), Count(y, n)) + SumOfMaxima(x, y, S \ {n})

\* C6: IncrementCounter with delta < 0 fails with InvalidDelta and leaves
\* every component of every key as it was.
C6_NegativeDeltaRejected ==
    (ctrLast.op = "IncrementCounter" /\ ctrLast.delta < 0) =>
        /\ ctrLast.err = "InvalidDelta"
        /\ gcounter["r1"] = ctrLast.before

\* C7: after MergeCounter(key, remote) every node id present in the local or
\* the remote counter has the larger of its local and remote component (an
\* absent one counting 0), GetCounter is the sum of these maxima, and
\* GetCounter of a key without a counter is 0.
C7_MergeIsPointwiseMax ==
    /\ ctrLast.op = "MergeCounter" =>
          LET local == CounterOf(ctrLast.before, ctrLast.key)
              after == CounterOf(gcounter["r1"], ctrLast.key)
              ids   == DOMAIN local \cup DOMAIN ctrLast.other
          IN  /\ \A n \in ids :
                    Count(after, n) =
                        Larger(Count(local, n), Count(ctrLast.other, n))
              /\ GetCounterValue(gcounter["r1"], ctrLast.key) =
                    SumOfMaxima(local, ctrLast.other, ids)
    /\ (ctrLast.op = "GetCounter" /\ ctrLast.key \notin DOMAIN ctrLast.before) =>
          ctrLast.value = 0

ReplicaCounts(r) == CounterOf(gcounter[r], CounterKey)

\* the counter states at hand: both replicas' and the one in flight
StatesAtHand ==
    {ReplicaCounts(r) : r \in Replicas}
        \cup (IF chan = NoMsg THEN {} ELSE {chan.counts})

\* C8: with increments of delta >= 0 and merges in any order, repeated or
\* late, once neither replica has an unmerged increment of the other both
\* hold the same component for every node and the same GetCounter value;
\* merging is commutative and associative (component by component) and
\* idempotent.
C8_Convergence ==
    /\ (~stale["r1"] /\ ~stale["r2"]) =>
          /\ CounterEq(ReplicaCounts("r1"), ReplicaCounts("r2"))
          /\ GetCounterValue(gcounter["r1"], CounterKey) =
                GetCounterValue(gcounter["r2"], CounterKey)
    /\ \A x \in StatesAtHand, y \in StatesAtHand :
          CounterEq(MergeNodeCounts(x, y), MergeNodeCounts(y, x))
    /\ \A x \in StatesAtHand, y \in StatesAtHand, z \in StatesAtHand :
          CounterEq(MergeNodeCounts(MergeNodeCounts(x, y), z),
                    MergeNodeCounts(x, MergeNodeCounts(y, z)))
    /\ \A x \in StatesAtHand : MergeNodeCounts(x, x) = x

\* both replicas have merged each other after increments on both nodes,
\* while an older, different state is still in flight
C8_Witness ==
    /\ ~stale["r1"] /\ ~stale["r2"]
    /\ Count(ReplicaCounts("r1"), "n1") > 0
    /\ Count(ReplicaCounts("r2"), "n2") > 0
    /\ GetCounterValue(gcounter["r1"], CounterKey) >= 3
    /\ chan # NoMsg
    /\ ~CounterEq(chan.counts, ReplicaCounts("r1"))

(***************************************************************************)
(* Claims about the registers                                              *)
(***************************************************************************)

\* (timestamp, writerId) of a strictly greater than that of b
PairGreater(a, b) ==
    \/ a.Timestamp > b.Timestamp
    \/ (a.Timestamp = b.Timestamp /\ NodeRank[a.NodeID] > NodeRank[b.NodeID])

LastWasWrite == lwwLast.op \in {"SetLWW", "MergeLWW"}

\* C9: SetLWW(key, value, timestamp, writerId) and MergeLWW(key, {value,
\* timestamp, writerId}) change the map in the same way: the register is
\* stored if the key has none or its pair is strictly greater than the
\* stored pair, and otherwise the map is left as it was.
C9_SetAndMergeAgree ==
    LastWasWrite =>
        LET before == lwwLast.before
            key    == lwwLast.key
            reg    == lwwLast.reg
        IN  /\ lww = SetLWWStore(before, key, reg.Value, reg.Timestamp,
                                 reg.NodeID)
            /\ lww = MergeLWWStore(before, key, reg)
            /\ IF key \notin DOMAIN before THEN lww = Put(before, key, reg)
               ELSE IF PairGreater(reg, before[key])
                    THEN lww = Put(before, key, reg)
                    ELSE lww = before

\* a merge with a lower timestamp and another value kept the stored value
C9_Witness ==
    /\ lwwLast.op = "MergeLWW"
    /\ lwwLast.key \in DOMAIN lwwLast.before
    /\ lwwLast.reg.Timestamp < lwwLast.before[lwwLast.key].Timestamp
    /\ lwwLast.reg.Value # lwwLast.before[lwwLast.key].Value
    /\ lww[lwwLast.key] = lwwLast.before[lwwLast.key]

SeenFor(key) == {w.reg : w \in {x \in lwwSeen : x.key = key}}

Orderings(S) ==
    {f \in [1 .. Cardinality(S) -> S] :
        \A i \in DOMAIN f, j \in DOMAIN f : f[i] = f[j] => i = j}

RECURSIVE ApplyAll(_, _, _)
ApplyAll(store, key, regs) ==
    IF regs = <<>> THEN store
    ELSE ApplyAll(MergeLWWStore(store, key, Head(regs)), key, Tail(regs))

\* C10: for the set of registers written to a key, every order of applying
\* them to an empty register ends with the same GetLWW value, the value of
\* the register with the maximum (timestamp, writerId) pair.
C10_OrderIndependent ==
    \A key \in Keys :
        SeenFor(key) # {} =>
            /\ \A reg \in SeenFor(key) :
                  (\A o \in SeenFor(key) : ~PairGreater(o, reg)) =>
                      GetLWWResult(lww, key) =
                          [value |-> reg.Value, found |-> TRUE]
            /\ \A order \in Orderings(SeenFor(key)) :
                  GetLWWResult(ApplyAll(<< >>, key, order), key) =
                      GetLWWResult(lww, key)

\* C11: every component of every counter is non-negative, and no
\* IncrementCounter or MergeCounter call makes a component, or GetCounter of
\* a key, smaller than it was before the call.
C11_ComponentsGrowOnly ==
    /\ \A key \in DOMAIN gcounter["r1"] : \A n \in DOMAIN gcounter["r1"][key] :
          gcounter["r1"][key][n] >= 0
    /\ ctrLast.op \in {"IncrementCounter", "MergeCounter"} =>
          \A key \in Keys :
              /\ \A n \in NodeIds :
                    Count(CounterOf(gcounter["r1"], key), n) >=
                        Count(CounterOf(ctrLast.before, key), n)
              /\ GetCounterValue(gcounter["r1"], key) >=
                    GetCounterValue(ctrLast.before, key)

\* C12: the register stored for a key is one of the registers written to
\* the key and no register written to it has a strictly greater (timestamp,
\* writerId) pair; no SetLWW or MergeLWW moves the stored pair to a smaller
\* one.
C12_StoredIsMaximum ==
    /\ \A key \in Keys :
          /\ (key \in DOMAIN lww) = (SeenFor(key) # {})
          /\ key \in DOMAIN lww =>
                /\ lww[key] \in SeenFor(key)
                /\ \A reg \in SeenFor(key) : ~PairGreater(reg, lww[key])
    /\ LastWasWrite =>
          \A key \in DOMAIN lwwLast.before :
              /\ key \in DOMAIN lww
              /\ ~PairGreater(lwwLast.before[key], lww[key])

\* a write with a smaller pair and another value arrived after the maximum
\* and did not displace it
C12_Witness ==
    /\ lwwLast.op = "SetLWW"
    /\ lwwLast.key \in DOMAIN lwwLast.before
    /\ PairGreater(lww[lwwLast.key], lwwLast.reg)
    /\ lwwLast.reg.Value # lww[lwwLast.key].Value
    /\ Cardinality(SeenFor(lwwLast.key)) = 3

\* a finished Apply call of caller c
Returned(c) == ret[c].op = "Apply" /\ ret[c].err # "running"

\* C13: Apply called on a node that is not Leader fails with NotLeader and
\* leaves the log, commitIndex and lastApplied as they were; an entry is
\* appended to the log only by a call made on a Leader.
C13_NotLeaderRejected ==
    \A c \in Callers :
        /\ (Returned(c) /\ ret[c].role # "Leader") =>
              /\ ret[c].err = "NotLeader"
              /\ ret[c].after = ret[c].before
        /\ pc[c] \in {"appended", "committed"} => ret[c].role = "Leader"

\* the effect of a command on the Temporal Store or the CRDT registry
EffectPresent(command) ==
    CASE command.type = "insert" ->
            \E i \in 1..Len(Records(data, command.key)) :
                data[command.key][i].Value = command.value
      [] command.type = "increment" ->
            Count(CounterOf(gcounter["r1"], command.key), command.value) >= 1
      [] command.type = "set_register" ->
            /\ command.key \in DOMAIN lww
            /\ lww[command.key].Value = command.value

\* C14: whenever lastApplied has advanced to index i, the effect of the
\* command of every log entry up to i is present in the Temporal Store or the
\* CRDT registry.
C14_AppliedToStores ==
    \A i \in 1..lastApplied[ThisNode] :
        i <= Len(log[ThisNode]) => EffectPresent(log[ThisNode][i].Command)

C16_AppliedInOrder ==
    /\ [](/\ lastApplied[ThisNode] <= commitIndex[ThisNode]
          /\ commitIndex[ThisNode] <= Len(log[ThisNode]))
    /\ [][(\/ lastApplied'[ThisNode] # lastApplied[ThisNode]
           \/ \E c \in Callers : pc[c] = "committed" /\ pc'[c] = "idle")
             => lastApplied'[ThisNode] = lastApplied[ThisNode] + 1]_vars

\* both callers have had a call return, with different indexes, and
\* lastApplied stands at the second
C16_Witness ==
    /\ lastApplied[ThisNode] = 2
    /\ Returned("c1") /\ Returned("c2")
    /\ ret["c1"].index # ret["c2"].index

\* C17: a membership change is an entry of the log: every peer in the peer
\* map was put there by a logged configuration change naming it.
C17_JoinIsLogged ==
    \A nodeID \in DOMAIN peers[ThisNode] :
        \E i \in 1..Len(log[ThisNode]) :
            /\ log[ThisNode][i].Command.type = "join"
            /\ log[ThisNode][i].Command.key = nodeID
            /\ log[ThisNode][i].Command.value = peers[ThisNode][nodeID]

\* C18: the entry at position i of the log has index i; a step changes the log
\* only by appending one entry, whose term is currentTerm as it was when the
\* call began and whose index is the length the log had then plus one; a
\* finished call has appended exactly one entry; entries in the log are
\* never modified, reordered or removed.
C18_LogWellFormed ==
    /\ [](/\ \A i \in 1..Len(log[ThisNode]) : log[ThisNode][i].Index = i
          /\ \A c \in Callers : Returned(c) =>
                ret[c].after.log =
                    Append(ret[c].before.log,
                           [Term |-> ret[c].term,
                            Index |-> Len(ret[c].before.log) + 1,
                            Command |-> entry[c].Command]))
    /\ [][\/ log'[ThisNode] = log[ThisNode]
          \/ \E c \in Callers :
                /\ pc[c] = "built"
                /\ log'[ThisNode] =
                      Append(log[ThisNode],
                             [Term |-> ret[c].term,
                              Index |-> Len(ret[c].before.log) + 1,
                              Command |-> entry[c].Command])]_vars

\* the log holds an entry of term 0 followed by one of a later term
C18_Witness ==
    /\ Len(log[ThisNode]) = 2
    /\ log[ThisNode][1].Term = 0
    /\ log[ThisNode][2].Term > 0
    /\ \E c \in Callers : Returned(c) /\ ret[c].index = 2

\* C19: a Follower that hears no heartbeat eventually becomes Candidate: the
\* node eventually leaves the Follower role, and a node that is given no peers
\* eventually reports "leader" from GetState.
C19_FollowerTimesOut ==
    /\ <>(raftState[ThisNode] # "Follower")
    /\ <>(\/ DOMAIN peers[ThisNode] # {}
          \/ GetStateResult(ThisNode).state = "leader")

\* a tick on which node n, having read state Candidate, runs startElection
ElectionStep(n) == tickSeen[n] = "Candidate" /\ tickSeen'[n] = "wait"

\* C20: when a Candidate starts an election, in that one step currentTerm
\* grows by exactly 1 and votedFor becomes its own id; with no peers its role
\* becomes Leader, with at least one peer it does not become Leader; and no
\* other step changes the term, the vote or makes a Leader.
C20_StartElection ==
    [][\A n \in Nodes :
          /\ ElectionStep(n) =>
                /\ raftState[n] = "Candidate"
                /\ currentTerm'[n] = currentTerm[n] + 1
                /\ votedFor'[n] = n
                /\ DOMAIN peers[n] = {} => raftState'[n] = "Leader"
                /\ DOMAIN peers[n] # {} => raftState'[n] = "Candidate"
          /\ ~ElectionStep(n) =>
                /\ currentTerm'[n] = currentTerm[n]
                /\ votedFor'[n] = votedFor[n]
                /\ raftState'[n] = "Leader" => raftState[n] = "Leader"]_vars

\* a node without peers has won its election, in term 1
C20_Witness ==
    /\ raftState[ThisNode] = "Leader"
    /\ DOMAIN peers[ThisNode] = {}
    /\ currentTerm[ThisNode] = 1
    /\ votedFor[ThisNode] = ThisNode

Members(n) == {n} \cup DOMAIN peers[n]

\* a majority of the cluster of n stores n's entry of index i (index 0: no
\* entry, nothing to store)
MajorityStores(n, i) ==
    LET holders == {m \in Members(n) :
                       /\ i <= Len(log[m])
                       /\ i <= Len(log[n])
                       /\ log[m][i] = log[n][i]}
    IN  i = 0 \/ 2 * Cardinality(holders) > Cardinality(Members(n))

\* C22: on a node with one or more peers, a step moves commitIndex or
\* lastApplied to an index only when a majority of the cluster, the node
\* itself included, stores the entry of that index.
C22_CommitNeedsMajority ==
    [][(/\ DOMAIN peers[ThisNode] # {}
        /\ \/ commitIndex'[ThisNode] # commitIndex[ThisNode]
           \/ lastApplied'[ThisNode] # lastApplied[ThisNode])
          => /\ MajorityStores(ThisNode, commitIndex'[ThisNode])
             /\ MajorityStores(ThisNode, lastApplied'[ThisNode])]_vars

\* the role changes the design allows
AllowedEdges ==
    {<<"Follower", "Candidate">>, <<"Candidate", "Leader">>,
     <<"Leader", "Follower">>, <<"Candidate", "Follower">>}

\* C23: a node starts as Follower with currentTerm 0; its role changes only
\* along Follower->Candidate, Candidate->Leader, Leader->Follower and
\* Candidate->Follower; currentTerm never decreases.
C23_RoleEdges ==
    /\ \A n \in Nodes : raftState[n] = "Follower" /\ currentTerm[n] = 0
    /\ [][\A n \in Nodes :
             /\ raftState'[n] # raftState[n] =>
                   <<raftState[n], raftState'[n]>> \in AllowedEdges
             /\ currentTerm'[n] >= currentTerm[n]]_vars

\* a node went from Follower through Candidate to Leader, and a later tick
\* has read it as Leader
C23_Witness ==
    /\ raftState[ThisNode] = "Leader"
    /\ tickSeen[ThisNode] = "Leader"
    /\ currentTerm[ThisNode] > 0

\* C26: the peer map of a node never holds the node's own id.
C26_SelfNotPeer ==
    \A n \in Nodes : n \notin DOMAIN peers[n]

\* handler h is inside Insert, between Lock and Unlock
Writing(h) == dbPc[h] \in {"locked", "appended", "created"}

\* C24: while a write holds the store (mutating or persisting), no other
\* write is under way, no read is under way, and no other persistence of the
\* map (the Close of shutdown) is under way.
C24_WriteExclusive ==
    \A h \in Handlers :
        Writing(h) =>
            /\ \A g \in Handlers \ {h} : ~Writing(g) /\ dbPc[g] # "reading"
            /\ mainPc # "closing"

\* C25: once Shutdown has been called, only a tick that was under way or
\* already sent is still processed: no tick that the ticker sent after the
\* call is taken up by the tick task, and no tick taken up after the call
\* changes the role or the term.
C25_ShutdownStopsTick ==
    [][/\ ~(ticker[ThisNode] = "late" /\ ticker'[ThisNode] = "empty")
       /\ consensus[ThisNode] = "returned" =>
             /\ raftState'[ThisNode] = raftState[ThisNode]
             /\ currentTerm'[ThisNode] = currentTerm[ThisNode]]_vars

====
